---- MODULE Spec2Model ----
(***************************************************************************)
(* Model of src/tui/app.py: run() wires a BLE client, the controller's     *)
(* subscribe task (the producer), a telemetry asyncio.Queue(maxsize=5) and  *)
(* the Textual TreadMillApp, whose exclusive worker watch_queue is the     *)
(* consumer and whose button handlers call the controller.                 *)
(*                                                                         *)
(* Scheduling is asyncio's: one event loop, a task runs from one           *)
(* suspension point to the next, so every action below is one such run.    *)
(* The controller (src/treadmill/controller.py) is not part of the source  *)
(* at hand; its four operations are modelled from their specification.     *)
(***************************************************************************)
EXTENDS Integers, Sequences, FiniteSets, TLC

\* ---------------------------------------------------------------- bounds
MaxSnapshots == 6   \* notifications the device sends in one session
MaxPresses   == 2   \* button presses in one session
MaxMounts    == 2   \* Mount events delivered to the app in one session

\* ------------------------------------------------------------- constants
QueueMaxSize == 5                 \* asyncio.Queue(maxsize=5)
IncSpeedArg  == 2                 \* set_speed(2)
DecSpeedArg  == 1                 \* set_speed(1)
HeightValues == {0, 175}          \* USER_HEIGHT as configured in secret.py
ButtonIds    == {"start", "stop", "inc_speed", "dec_speed"}

\* the readings and heights on which lines 94-100 are checked by themselves
FmtTimes     == {0, 59, 60, 3599, 3600, 3725, 86399, 86400, 90000, 172800}
FmtDistances == {0, 120, 581}
FmtHeights   == {112, 175}

VARIABLES
  runPc,            \* position of run()
  runError,         \* exception that left run(), "none" if none
  userHeight,       \* USER_HEIGHT
  queue,            \* telemetry_queue contents
  prodPc,           \* position of the subscribe task
  pending,          \* snapshot of a put() suspended on the full queue
  produced,         \* notifications decoded so far
  cancelRequested,  \* task.cancel() was called on the subscribe task
  uiState,          \* "none", "running", "exited"
  exitCause,        \* why the app exited: "none", "quit", "handler_error", "worker_error"
  failed,           \* controller calls that raised a transport error
  workers,          \* state of every worker started by run_worker
  messages,         \* the app's message queue
  pump,             \* "idle", or "awaiting" inside a button handler
  calls,            \* controller calls made by the handlers, in order
  display,          \* data last written to the five display widgets
  mounts,           \* Mount events delivered
  presses,          \* buttons pressed
  putLog,           \* history: snapshots whose put() completed
  resumed,          \* history: puts that completed after being suspended
  consumed,         \* history: snapshots returned by queue.get()
  posted,           \* history: TreadmillUpdate data posted
  applied,          \* history: TreadmillUpdate data applied to the display
  dispatched        \* history: button ids whose handler ran

vars == <<runPc, runError, userHeight, queue, prodPc, pending, produced,
          cancelRequested, uiState, exitCause, failed, workers, messages,
          pump, calls, display, mounts, presses, putLog, resumed, consumed,
          posted, applied, dispatched>>

runVars  == <<runPc, runError>>
prodVars == <<prodPc, pending, produced, cancelRequested>>
uiExit   == <<exitCause, failed>>
histVars == <<putLog, resumed, consumed, posted, applied, dispatched>>

\* ------------------------------------------------------------------ data
\* The k-th telemetry reading of a session (speed in hundredths).
Snapshot(k) == [speed |-> 520, distance |-> 40 * k, calories |-> 15 * k, time |-> k]
NoSnapshot  == Snapshot(0)

\* ------------------------------------------------------ IEEE 754 binary64
\* Python floats are binary64; the arithmetic of line 99 is reproduced on
\* natural numbers of any size, kept as limbs of LimbBits bits, least
\* significant limb first, without leading zero limbs.
LimbBits == 15
LimbBase == 2 ^ LimbBits

\* The element of a one-element set. In The({e : x \in {v}}) the value v is
\* computed once, however often e uses x.
The(S) == CHOOSE r \in S : TRUE

RECURSIVE BigFromInt(_)
BigFromInt(n) == IF n = 0 THEN <<>> ELSE <<n % LimbBase>> \o BigFromInt(n \div LimbBase)

RECURSIVE BigToInt(_)
BigToInt(a) == IF a = <<>> THEN 0 ELSE Head(a) + LimbBase * BigToInt(Tail(a))

\* a without its leading zero limbs
BigNorm(a0) ==
  The({IF used = {} THEN <<>>
       ELSE SubSeq(a, 1, CHOOSE i \in used : \A j \in used : j <= i) :
         <<a, used>> \in {<<x, {i \in 1..Len(x) : x[i] # 0}>> : x \in {a0}}})

Limb(a, i) == IF i >= 1 /\ i <= Len(a) THEN a[i] ELSE 0

Max(m, n) == IF m >= n THEN m ELSE n

\* a + b: a carry enters limb i when a lower limb overflows and every limb
\* in between passes the carry on
BigAdd(a0, b0) ==
  The({LET Sum(i)   == Limb(a, i) + Limb(b, i)
           Carry(i) == \E j \in 1..(i - 1) :
                         Sum(j) >= LimbBase /\ \A k \in (j + 1)..(i - 1) : Sum(k) = LimbBase - 1
       IN BigNorm([i \in 1..(Max(Len(a), Len(b)) + 1) |->
                     (Sum(i) + (IF Carry(i) THEN 1 ELSE 0)) % LimbBase]) :
         a \in {a0}, b \in {b0}})

\* a - b for a >= b, the borrows found the same way
BigSub(a0, b0) ==
  The({LET Borrow(i) == \E j \in 1..(i - 1) :
                          /\ Limb(a, j) < Limb(b, j)
                          /\ \A k \in (j + 1)..(i - 1) : Limb(a, k) = Limb(b, k)
       IN BigNorm([i \in 1..Len(a) |->
                     (a[i] - Limb(b, i) - (IF Borrow(i) THEN 1 ELSE 0)) % LimbBase]) :
         a \in {a0}, b \in {b0}})

\* a < b: the highest limb in which they differ decides
BigLess(a0, b0) ==
  The({IF Len(a) # Len(b) THEN Len(a) < Len(b)
       ELSE \E i \in 1..Len(a) :
              /\ a[i] < b[i]
              /\ \A j \in (i + 1)..Len(a) : a[j] = b[j] :
         a \in {a0}, b \in {b0}})

\* a * x for one limb x: the low limbs of the products plus their high limbs
BigMulLimb(a0, x0) ==
  The({BigAdd([i \in 1..Len(a) |-> (a[i] * x) % LimbBase],
              [i \in 1..(Len(a) + 1) |-> IF i = 1 THEN 0 ELSE (a[i - 1] * x) \div LimbBase]) :
         a \in {a0}, x \in {x0}})

\* a * LimbBase^k
BigShlLimbs(a0, k) == The({IF a = <<>> THEN <<>> ELSE [j \in 1..k |-> 0] \o a : a \in {a0}})

RECURSIVE BigMul(_, _)
BigMul(a0, b0) ==
  The({IF b = <<>> \/ a = <<>> THEN <<>>
       ELSE The({IF rest = <<>> THEN BigMulLimb(a, Head(b))
                 ELSE BigAdd(BigMulLimb(a, Head(b)), BigShlLimbs(rest, 1)) :
                   rest \in {BigMul(a, Tail(b))}}) :
         a \in {a0}, b \in {b0}})

\* the number of bits of n < 2^31
IntBitLen(n0) ==
  The({CHOOSE k \in 0..31 : (k = 0 \/ n >= 2 ^ (k - 1)) /\ (k = 31 \/ n < 2 ^ k) : n \in {n0}})
BigBitLen(a0) ==
  The({IF a = <<>> THEN 0 ELSE LimbBits * (Len(a) - 1) + IntBitLen(a[Len(a)]) : a \in {a0}})

\* bit i of a, bit 0 the least significant
BigBit(a, i) == (Limb(a, (i \div LimbBits) + 1) \div (2 ^ (i % LimbBits))) % 2

\* floor(a / 2^n)
BigShr(a0, n) ==
  The({BigNorm([j \in 1..(Len(a) - k) |->
                  (Limb(a, j + k) \div (2 ^ b))
                    + (Limb(a, j + k + 1) % (2 ^ b)) * (2 ^ (LimbBits - b))]) :
         a \in {a0}, k \in {n \div LimbBits}, b \in {n % LimbBits}})

\* a * 2^n
BigShl(a, n) == BigShlLimbs(BigMulLimb(a, 2 ^ (n % LimbBits)), n \div LimbBits)

\* One digit of the long division by d, whose highest limb is at least
\* LimbBase / 2: r < d is the remainder so far, limb the next limb of the
\* dividend. The digit is at most 2 below its estimate from the two highest
\* limbs (Knuth, algorithm D).
BigDivDigit(r, limb, d0) ==
  The({LET n    == Len(d)
           est  == (Limb(r2, n + 1) * LimbBase + Limb(r2, n)) \div d[n]
           qhat == IF est >= LimbBase THEN LimbBase - 1 ELSE est
       IN The({[q |-> q, r |-> BigSub(r2, BigMulLimb(d, q))] :
                 q \in {CHOOSE x \in {y \in (qhat - 2)..qhat : y >= 0} :
                          /\ ~BigLess(r2, BigMulLimb(d, x))
                          /\ BigLess(r2, BigMulLimb(d, x + 1))}}) :
         r2 \in {BigNorm(<<limb>> \o r)}, d \in {d0}})

\* the quotient limbs i and above of a divided by d, with the remainder:
\* the limbs of a above Len(a) - Len(d) + 1 make a number below d
RECURSIVE BigDivFrom(_, _, _)
BigDivFrom(a, d, i) ==
  IF i > Len(a) - Len(d) + 1
    THEN [quot |-> <<>>, r |-> BigNorm(SubSeq(a, Max(i, 1), Len(a)))]
    ELSE The({IF high.r = <<>> /\ a[i] = 0 THEN [quot |-> <<0>> \o high.quot, r |-> <<>>]
              ELSE The({[quot |-> <<step.q>> \o high.quot, r |-> step.r] :
                          step \in {BigDivDigit(high.r, a[i], d)}}) :
                high \in {BigDivFrom(a, d, i + 1)}})

\* floor(a / d) and whether a remainder is left, d # 0: both are scaled
\* to bring the highest limb of d to LimbBase / 2 or more
BigDiv(a0, d0) ==
  The({IF a = <<>> THEN [quot |-> <<>>, inexact |-> FALSE]
       ELSE The({[quot |-> BigNorm(dm.quot), inexact |-> dm.r # <<>>] :
                   dm \in {The({BigDivFrom(as, ds, 1) :
                                  as \in {BigMulLimb(a, 2 ^ (LimbBits - IntBitLen(d[Len(d)])))},
                                  ds \in {BigMulLimb(d, 2 ^ (LimbBits - IntBitLen(d[Len(d)])))}})}}) :
         a \in {a0}, d \in {d0}})

\* a positive double is mant * 2^exp with mant of exactly 53 bits; q * 2^e,
\* inexact below its last bit when sticky, rounded to nearest, ties to even
Binary64Round(q0, sticky, e) ==
  The({IF drop <= 0 THEN [mant |-> BigShl(q, -drop), exp |-> e + drop]
       ELSE LET guard == BigBit(q, drop - 1)
                low   == \E i \in 0..(drop - 2) : BigBit(q, i) = 1
            IN The({IF BigBitLen(m) = 54 THEN [mant |-> BigShr(m, 1), exp |-> e + drop + 1]
                    ELSE [mant |-> m, exp |-> e + drop] :
                      m \in {The({IF guard = 1 /\ (sticky \/ low \/ BigBit(kept, 0) = 1)
                                    THEN BigAdd(kept, <<1>>)
                                    ELSE kept :
                                  kept \in {BigShr(q, drop)}})}}) :
         <<q, drop>> \in {<<x, BigBitLen(x) - 53>> : x \in {q0}}})

\* the double nearest to (n * 2^en) / (d * 2^ed), n and d positive: the
\* dividend is scaled by whole limbs to leave 55 quotient bits or more
Binary64Div(n0, en, d0, ed) ==
  The({The({Binary64Round(dm.quot, dm.inexact, en - ed - LimbBits * k) :
              dm \in {BigDiv(BigShlLimbs(n, k), d)}}) :
         <<n, d, k>> \in
           {<<x, y, CHOOSE j \in 0..8 :
                      /\ LimbBits * j + BigBitLen(x) >= BigBitLen(y) + 55
                      /\ (j = 0 \/ LimbBits * (j - 1) + BigBitLen(x) < BigBitLen(y) + 55)>> :
              x \in {n0}, y \in {d0}}})

Binary64Mul(x0, y0) ==
  The({Binary64Round(BigMul(x.mant, y.mant), FALSE, x.exp + y.exp) : x \in {x0}, y \in {y0}})

\* int(x): truncation of a positive double
Binary64Trunc(x0) ==
  The({BigToInt(m) :
         m \in {The({IF x.exp >= 0 THEN BigShl(x.mant, x.exp) ELSE BigShr(x.mant, -x.exp) :
                       x \in {x0}})}})

\* line 99: the literal 0.415
Stride415 == Binary64Div(BigFromInt(415), 0, BigFromInt(1000), 0)

\* ------------------------------------------------------------ derived data
\* line 99: int(int(distance) / (int(USER_HEIGHT) / 100 * 0.415)), every
\* operation rounded to a double as Python does. A zero stride has no
\* result here: the division raises, see StepsRaises
Steps(distance, height) ==
  IF distance = 0 \/ height = 0 THEN 0
  ELSE The({Binary64Trunc(Binary64Div(BigFromInt(distance), 0, stride.mant, stride.exp)) :
              stride \in {Binary64Mul(Binary64Div(BigFromInt(height), 0, BigFromInt(100), 0),
                                      Stride415)}})
\* line 99 divides by zero when USER_HEIGHT is 0
StepsRaises(height) == height = 0

\* Steps of the distances and heights that occur, computed once
StepsTable ==
  {<<p[1], p[2], Steps(p[1], p[2])>> :
     p \in {<<Snapshot(k).distance, h>> : k \in 0..MaxSnapshots, h \in HeightValues \ {0}}
              \cup (FmtDistances \X FmtHeights)}
StepsOf(distance, height) ==
  IF \E t \in StepsTable : t[1] = distance /\ t[2] = height
    THEN (CHOOSE t \in StepsTable : t[1] = distance /\ t[2] = height)[3]
    ELSE Steps(distance, height)

\* str(n) of a non-negative integer
Digit == <<"0", "1", "2", "3", "4", "5", "6", "7", "8", "9">>
RECURSIVE IntText(_)
IntText(n) == IF n < 10 THEN Digit[n + 1] ELSE IntText(n \div 10) \o Digit[(n % 10) + 1]

\* the zero fill of the format specs 04d, 05.2f and of timedelta's %02d
RECURSIVE PadZero(_, _)
PadZero(text, width) == IF Len(text) >= width THEN text ELSE PadZero("0" \o text, width)

\* line 95: f"{speed:05.2f}", the speed held in hundredths
SpeedText(speed) ==
  PadZero(IntText(speed \div 100) \o "." \o PadZero(IntText(speed % 100), 2), 5)

\* line 98: str(timedelta(seconds=time)); timedelta keeps days apart from
\* the seconds of the day, and __str__ puts them in front of H:MM:SS
DurationText(time) ==
  LET days == time \div 86400
      secs == time % 86400
      hms  == IntText(secs \div 3600) \o ":" \o PadZero(IntText((secs % 3600) \div 60), 2)
                \o ":" \o PadZero(IntText(secs % 60), 2)
  IN IF days = 0 THEN hms
     ELSE IntText(days) \o (IF days = 1 THEN " day, " ELSE " days, ") \o hms

\* lines 94-100: the data of a TreadmillUpdate, five strings
DeriveData(s, height) ==
  [speed |-> SpeedText(s.speed),
   distance |-> PadZero(IntText(s.distance), 4),
   calories |-> PadZero(IntText(s.calories), 4),
   duration |-> DurationText(s.time),
   steps |-> IntText(StepsOf(s.distance, height))]
\* lines 67-71: the texts compose() gives the five display widgets
ComposedData ==
  [speed |-> "00.0", distance |-> "0000", calories |-> "000", duration |-> "00:00:00",
   steps |-> "0000"]
\* Mount and Button.Pressed carry no data
NoData == [speed |-> "", distance |-> "", calories |-> "", duration |-> "", steps |-> ""]

Msg(type, id, data) == [type |-> type, id |-> id, data |-> data]
MountMsg       == Msg("Mount", "app", NoData)
PressedMsg(b)  == Msg("Pressed", b, NoData)
UpdateMsg(d)   == Msg("Update", "app", d)

\* a controller call: operation name and positional arguments
Call(op, args) == [op |-> op, args |-> args]

\* ----------------------------------------------------------- the channel
FullNever(q) == FALSE
FullOffByOne(q) == Len(q) > QueueMaxSize
\* asyncio.Queue.full(): maxsize <= 0 means unbounded
Full(q) == QueueMaxSize > 0 /\ Len(q) >= QueueMaxSize

\* line 92: queue.get() on a non-empty queue returns the oldest item
QueueGetLifo(q) == [item |-> q[Len(q)], rest |-> SubSeq(q, 1, Len(q) - 1)]
QueueGet(q) == [item |-> Head(q), rest |-> Tail(q)]

DrainDropsOldest(q) == Tail(q)
\* lines 91-92: while the queue is not empty get() does not suspend, so one
\* run of the worker takes every buffered snapshot
RECURSIVE Drain(_)
Drain(q) == IF q = <<>> THEN <<>>
            ELSE <<QueueGet(q).item>> \o Drain(QueueGet(q).rest)

\* lines 94-100 for every snapshot taken, in the order taken
MapData(items, height) == [i \in 1..Len(items) |-> DeriveData(items[i], height)]

\* line 102: one TreadmillUpdate per data
MapUpdate(ds) == [i \in 1..Len(ds) |-> UpdateMsg(ds[i])]

\* --------------------------------------------------------------- workers
Active(st) == st \in {"started", "waiting"}
ActiveWorkers == {w \in 1..Len(workers) : Active(workers[w])}
\* Textual cancels a worker: its task receives CancelledError at its await
CancelAll(ws) == [w \in 1..Len(ws) |-> IF Active(ws[w]) THEN "cancelled" ELSE ws[w]]

\* ------------------------------------------------------------------ Init
Init ==
  /\ runPc = "start"
  /\ runError = "none"
  /\ userHeight \in HeightValues
  /\ queue = <<>>
  /\ prodPc = "none"
  /\ pending = NoSnapshot
  /\ produced = 0
  /\ cancelRequested = FALSE
  /\ uiState = "none"
  /\ exitCause = "none"
  /\ failed = 0
  /\ workers = <<>>
  /\ messages = <<>>
  /\ pump = "idle"
  /\ calls = <<>>
  /\ display = ComposedData
  /\ mounts = 0
  /\ presses = 0
  /\ putLog = <<>>
  /\ resumed = 0
  /\ consumed = <<>>
  /\ posted = <<>>
  /\ applied = <<>>
  /\ dispatched = <<>>

\* ----------------------------------------------------------------- run()
\* lines 117-132: connect, create the controller and the subscribe task,
\* create the app and start it; Textual delivers Mount to the new app
RunConnect ==
  /\ runPc = "start"
  /\ runPc' = "ui"
  /\ prodPc' = "idle"
  /\ uiState' = "running"
  /\ messages' = <<MountMsg>>
  /\ mounts' = 1
  /\ UNCHANGED <<runError, userHeight, queue, pending, produced, cancelRequested,
                 uiExit, workers, pump, calls, display, presses, histVars>>

\* line 123: BleakClient.__aenter__ raises when the device cannot be reached
RunConnectFail ==
  /\ runPc = "start"
  /\ runPc' = "raised"
  /\ runError' = "BleakError"
  /\ UNCHANGED <<userHeight, queue, prodVars, uiState, uiExit, workers, messages,
                 pump, calls, display, mounts, presses, histVars>>

RunUiReturnedNoWait ==
  /\ runPc = "ui"
  /\ runPc' = "disconnecting"
  /\ UNCHANGED <<runError, userHeight, queue, prodVars, uiState, uiExit, workers,
                 messages, pump, calls, display, mounts, presses, histVars>>
\* line 132 returns once the app has exited; line 123's scope starts to exit
RunUiReturned ==
  /\ runPc = "ui"
  /\ uiState = "exited"
  /\ runPc' = "disconnecting"
  /\ UNCHANGED <<runError, userHeight, queue, prodVars, uiState, uiExit, workers,
                 messages, pump, calls, display, mounts, presses, histVars>>

\* line 123: BleakClient.__aexit__ raises
RunDisconnectFail ==
  /\ runPc = "disconnecting"
  /\ runPc' = "raised"
  /\ runError' = "BleakError"
  /\ UNCHANGED <<userHeight, queue, prodVars, uiState, uiExit, workers, messages,
                 pump, calls, display, mounts, presses, histVars>>

\* lines 134-135: task.cancel(), then run() suspends in `await task`
RunCancelTask ==
  /\ runPc = "disconnecting"
  /\ runPc' = "await_task"
  /\ cancelRequested' = TRUE
  /\ UNCHANGED <<runError, userHeight, queue, prodPc, pending, produced, uiState,
                 uiExit, workers, messages, pump, calls, display, mounts, presses,
                 histVars>>

\* line 135: awaiting a task that ended cancelled raises CancelledError in
\* the awaiting coroutine; run() has no handler around it
RunAwaitTask ==
  /\ runPc = "await_task"
  /\ prodPc = "cancelled"
  /\ runPc' = "raised"
  /\ runError' = "CancelledError"
  /\ UNCHANGED <<userHeight, queue, prodVars, uiState, uiExit, workers, messages,
                 pump, calls, display, mounts, presses, histVars>>

\* lines 140-141: asyncio.run(run()). When run() has ended, returned or
\* raised, asyncio.run cancels every task of the loop that is still alive
\* and runs the loop until they are done
AsyncioRunCancelAll ==
  /\ runPc \in {"done", "raised"}
  /\ prodPc \in {"idle", "put_wait"}
  /\ ~cancelRequested
  /\ cancelRequested' = TRUE
  /\ UNCHANGED <<runVars, userHeight, queue, prodPc, pending, produced, uiState,
                 uiExit, workers, messages, pump, calls, display, mounts, presses,
                 histVars>>

\* ------------------------------------------- controller.subscribe() task
\* A notification is decoded into a snapshot and put(): enqueued at once if
\* there is room, otherwise the task suspends in put() holding the snapshot
Notify ==
  /\ prodPc = "idle"
  /\ ~cancelRequested
  /\ runPc \in {"ui", "disconnecting"}
  /\ produced < MaxSnapshots
  /\ produced' = produced + 1
  /\ IF Full(queue)
       THEN /\ prodPc' = "put_wait"
            /\ pending' = Snapshot(produced + 1)
            /\ UNCHANGED <<queue, putLog>>
       ELSE /\ queue' = Append(queue, Snapshot(produced + 1))
            /\ putLog' = Append(putLog, Snapshot(produced + 1))
            /\ UNCHANGED <<prodPc, pending>>
  /\ UNCHANGED <<runVars, userHeight, cancelRequested, uiState, uiExit, workers,
                 messages, pump, calls, display, mounts, presses, resumed, consumed,
                 posted, applied, dispatched>>

\* asyncio.Queue.put resumes after a get freed a slot and enqueues the item
PutResume ==
  /\ prodPc = "put_wait"
  /\ ~cancelRequested
  /\ ~Full(queue)
  /\ queue' = Append(queue, pending)
  /\ putLog' = Append(putLog, pending)
  /\ prodPc' = "idle"
  /\ pending' = NoSnapshot
  /\ resumed' = resumed + 1
  /\ UNCHANGED <<runVars, userHeight, produced, cancelRequested, uiState, uiExit,
                 workers, messages, pump, calls, display, mounts, presses, consumed,
                 posted, applied, dispatched>>

\* The cancelled task receives CancelledError at its await (the wait for a
\* notification or the suspended put, which re-raises without enqueuing)
SubscribeCancelled ==
  /\ cancelRequested
  /\ prodPc \in {"idle", "put_wait"}
  /\ prodPc' = "cancelled"
  /\ pending' = NoSnapshot
  /\ UNCHANGED <<runVars, userHeight, queue, produced, cancelRequested, uiState,
                 uiExit, workers, messages, pump, calls, display, mounts, presses,
                 histVars>>

\* ------------------------------------------------------- the Textual app
\* The user presses a button: Button.Pressed reaches the app's message queue
PressButton(b) ==
  /\ uiState = "running"
  /\ presses < MaxPresses
  /\ presses' = presses + 1
  /\ messages' = Append(messages, PressedMsg(b))
  /\ UNCHANGED <<runVars, userHeight, queue, prodVars, uiState, uiExit, workers,
                 pump, calls, display, mounts, histVars>>

\* Textual delivers a further Mount event to the app
PostMount ==
  /\ uiState = "running"
  /\ mounts < MaxMounts
  /\ mounts' = mounts + 1
  /\ messages' = Append(messages, MountMsg)
  /\ UNCHANGED <<runVars, userHeight, queue, prodVars, uiState, uiExit, workers,
                 pump, calls, display, presses, histVars>>

\* The app's message pump takes the next message when no handler is running
PumpReady(m) ==
  /\ uiState = "running"
  /\ pump = "idle"
  /\ messages # <<>>
  /\ Head(messages) = m

\* lines 74-88: a button handler calls the controller and suspends in the
\* await; the pump runs no other handler of the app until it returns
ButtonHandler(b, call) ==
  /\ PumpReady(PressedMsg(b))
  /\ messages' = Tail(messages)
  /\ calls' = Append(calls, call)
  /\ dispatched' = Append(dispatched, b)
  /\ pump' = "awaiting"
  /\ UNCHANGED <<runVars, userHeight, queue, prodVars, uiState, uiExit, workers,
                 display, mounts, presses, putLog, resumed, consumed, posted, applied>>

start_treadmill_calls_stop == ButtonHandler("start", Call("stop", <<>>))
\* lines 74-76
start_treadmill == ButtonHandler("start", Call("start", <<>>))

\* lines 78-80
stop_treadmill == ButtonHandler("stop", Call("stop", <<>>))

\* lines 82-84
increase_speed_treadmill == ButtonHandler("inc_speed", Call("set_speed", <<IncSpeedArg>>))

\* lines 86-88
decrease_speed_treadmill == ButtonHandler("dec_speed", Call("set_speed", <<DecSpeedArg>>))

\* The controller call returns; the handler ends
ControllerReturn ==
  /\ uiState = "running"
  /\ pump = "awaiting"
  /\ pump' = "idle"
  /\ UNCHANGED <<runVars, userHeight, queue, prodVars, uiState, uiExit, workers,
                 messages, calls, display, mounts, presses, histVars>>

\* The controller call raises a transport error; the handler has no
\* try/except, so the exception reaches Textual, which closes the app:
\* workers are cancelled and the messages still queued are never handled
ControllerRaise ==
  /\ uiState = "running"
  /\ pump = "awaiting"
  /\ pump' = "idle"
  /\ uiState' = "exited"
  /\ exitCause' = "handler_error"
  /\ failed' = failed + 1
  /\ workers' = CancelAll(workers)
  /\ messages' = <<>>
  /\ UNCHANGED <<runVars, userHeight, queue, prodVars, calls, display, mounts,
                 presses, histVars>>

on_mount_without_worker ==
  /\ PumpReady(MountMsg)
  /\ messages' = Tail(messages)
  /\ UNCHANGED <<runVars, userHeight, queue, prodVars, uiState, uiExit, workers, pump,
                 calls, display, mounts, presses, histVars>>
\* lines 104-106: run_worker(self.watch_queue(), exclusive=True) cancels the
\* workers already running and starts a new one
on_mount ==
  /\ PumpReady(MountMsg)
  /\ messages' = Tail(messages)
  /\ workers' = Append(CancelAll(workers), "started")
  /\ UNCHANGED <<runVars, userHeight, queue, prodVars, uiState, uiExit, pump,
                 calls, display, mounts, presses, histVars>>

\* lines 108-114: the five widgets are updated from the event's data
on_treadmill_update ==
  /\ uiState = "running"
  /\ pump = "idle"
  /\ messages # <<>>
  /\ Head(messages).type = "Update"
  /\ messages' = Tail(messages)
  /\ display' = Head(messages).data
  /\ applied' = Append(applied, Head(messages).data)
  /\ UNCHANGED <<runVars, userHeight, queue, prodVars, uiState, uiExit, workers,
                 pump, calls, mounts, presses, putLog, resumed, consumed, posted,
                 dispatched>>

\* lines 90-102: one run of worker w, from its start or from its wake-up in
\* queue.get() to its next suspension. With an empty queue it suspends in
\* get(). Otherwise it takes snapshots and posts one TreadmillUpdate each
\* until the queue is empty; if line 99 raises, the first snapshot taken is
\* lost with the worker, and the failed worker makes Textual close the app
watch_queue(w) ==
  /\ uiState = "running"
  /\ w \in 1..Len(workers)
  /\ \/ workers[w] = "started"
     \/ workers[w] = "waiting" /\ queue # <<>>
  /\ IF queue = <<>>
       THEN /\ workers' = [workers EXCEPT ![w] = "waiting"]
            /\ UNCHANGED <<queue, consumed, posted, messages, uiState, exitCause, pump>>
       ELSE IF StepsRaises(userHeight)
         THEN /\ queue' = QueueGet(queue).rest
              /\ consumed' = Append(consumed, QueueGet(queue).item)
              /\ workers' = [CancelAll(workers) EXCEPT ![w] = "error"]
              /\ uiState' = "exited"
              /\ exitCause' = "worker_error"
              /\ messages' = <<>>
              /\ pump' = "idle"
              /\ UNCHANGED posted
         ELSE \E taken \in {Drain(queue)} : \E data \in {MapData(taken, userHeight)} :
              /\ queue' = <<>>
              /\ consumed' = consumed \o taken
              /\ posted' = posted \o data
              /\ messages' = messages \o MapUpdate(data)
              /\ workers' = [workers EXCEPT ![w] = "waiting"]
              /\ UNCHANGED <<uiState, exitCause, pump>>
  /\ UNCHANGED <<runVars, userHeight, prodVars, failed, calls, display, mounts,
                 presses, putLog, resumed, applied, dispatched>>

\* The user quits the app (a key handled by the app's pump): Textual cancels
\* the workers and closes the message pump
UiQuit ==
  /\ uiState = "running"
  /\ pump = "idle"
  /\ uiState' = "exited"
  /\ exitCause' = "quit"
  /\ workers' = CancelAll(workers)
  /\ messages' = <<>>
  /\ UNCHANGED <<runVars, userHeight, queue, prodVars, failed, pump, calls,
                 display, mounts, presses, histVars>>

\* ------------------------------------------------------------------ Next
Next ==
  \/ RunConnect
  \/ RunConnectFail
  \/ RunUiReturned
  \/ RunDisconnectFail
  \/ RunCancelTask
  \/ RunAwaitTask
  \/ AsyncioRunCancelAll
  \/ Notify
  \/ PutResume
  \/ SubscribeCancelled
  \/ \E b \in ButtonIds : PressButton(b)
  \/ PostMount
  \/ start_treadmill
  \/ stop_treadmill
  \/ increase_speed_treadmill
  \/ decrease_speed_treadmill
  \/ ControllerReturn
  \/ ControllerRaise
  \/ on_mount
  \/ on_treadmill_update
  \/ \E w \in 1..MaxMounts : watch_queue(w)
  \/ UiQuit

Spec == Init /\ [][Next]_vars

\* The steps the event loop takes by itself: of run() and asyncio.run, of
\* the subscribe task once its put can go on or its cancellation is due, of
\* the worker, and of the pump starting on_mount. The user and the device
\* are under no obligation to act, and a controller call may never return.
LoopStep ==
  \/ RunUiReturned
  \/ RunCancelTask
  \/ RunDisconnectFail
  \/ RunAwaitTask
  \/ AsyncioRunCancelAll
  \/ PutResume
  \/ SubscribeCancelled
  \/ on_mount
  \/ \E w \in 1..MaxMounts : watch_queue(w)

\* asyncio keeps running ready tasks: while the loop has a step to take, it
\* eventually takes one
FairSpec == Spec /\ WF_vars(LoopStep)

\* ------------------------------------------ lines 94-114 by themselves
\* The app is mounted, its worker waits in get(), and the device has sent
\* one reading: any speed, distance, calories and time of the sets above
FmtSnapshots ==
  {[speed |-> 520, distance |-> d, calories |-> 45, time |-> t] :
     d \in FmtDistances, t \in FmtTimes}

FmtInit ==
  /\ runPc = "ui"
  /\ runError = "none"
  /\ userHeight \in FmtHeights
  /\ \E s \in FmtSnapshots : queue = <<s>> /\ putLog = <<s>>
  /\ prodPc = "idle"
  /\ pending = NoSnapshot
  /\ produced = 1
  /\ cancelRequested = FALSE
  /\ uiState = "running"
  /\ exitCause = "none"
  /\ failed = 0
  /\ workers = <<"waiting">>
  /\ messages = <<>>
  /\ pump = "idle"
  /\ calls = <<>>
  /\ display = ComposedData
  /\ mounts = 1
  /\ presses = 0
  /\ resumed = 0
  /\ consumed = <<>>
  /\ posted = <<>>
  /\ applied = <<>>
  /\ dispatched = <<>>

\* the worker derives the data and posts it, the app displays it
FmtNext == watch_queue(1) \/ on_treadmill_update

FmtSpec == FmtInit /\ [][FmtNext]_vars

\* ---------------------------------------------------------------- claims
\* the k-th snapshot produced, for k = 1..n
ProducedUpTo(n) == [k \in 1..n |-> Snapshot(k)]

\* q with its first n elements removed
DropFirst(q, n) == SubSeq(q, n + 1, Len(q))

\* C1: the snapshots the consumer has obtained, followed by those still in
\* the channel, are exactly the snapshots put, in the order they were put:
\* none lost, none duplicated, none reordered.
FifoNoLossNoDup ==
  /\ putLog = ProducedUpTo(Len(putLog))
  /\ consumed \o queue = putLog

\* more snapshots than the channel holds went through it to the consumer
FifoWitness == Len(consumed) >= 6 /\ consumed = ProducedUpTo(Len(consumed))

\* C2: the channel never holds more than 5 undelivered snapshots.
ChannelAtMostFive == Len(queue) <= 5

\* the channel is full and the producer is held back
ChannelFullWitness == Len(queue) = 5 /\ prodPc = "put_wait"

\* C3: a put on a channel that holds 5 snapshots suspends the producer with
\* the channel unchanged; while it is suspended on the full channel the only
\* change to the channel is a get by the consumer, and the put stays
\* suspended with its snapshot; it completes only when the channel holds
\* fewer than 5, by appending its snapshot after the buffered ones.
PutOnFullSuspends ==
  [][ /\ (produced' = produced + 1 /\ Len(queue) = 5)
           => (prodPc' = "put_wait" /\ pending' = Snapshot(produced') /\ queue' = queue
               /\ putLog' = putLog)
      /\ (prodPc = "put_wait" /\ Len(queue) = 5 /\ ~cancelRequested)
           => /\ prodPc' = "put_wait"
              /\ pending' = pending
              /\ \/ queue' = queue /\ consumed' = consumed
                 \/ \E n \in 1..5 : /\ queue' = DropFirst(queue, n)
                                    /\ consumed' = consumed \o SubSeq(queue, 1, n)
      /\ (prodPc = "put_wait" /\ prodPc' = "idle")
           => /\ Len(queue) < 5
              /\ queue' = Append(queue, pending)
              /\ putLog' = Append(putLog, pending)
    ]_vars

\* a put that was suspended on the full channel has completed
PutResumedWitness == resumed >= 1 /\ Len(putLog) >= 6

\* C4: at most one consumer loop is active, and every snapshot taken from
\* the channel has produced exactly one render event.
OneConsumerOneRenderEach ==
  /\ Cardinality(ActiveWorkers) <= 1
  /\ Len(posted) = Len(consumed)

\* C5: every dispatch of DecreaseSpeed made exactly one controller call,
\* setSpeed with the negative step -1.
DecreaseCallsMinusOne ==
  /\ Len(calls) = Len(dispatched)
  /\ \A i \in 1..Len(dispatched) :
       dispatched[i] = "dec_speed" => calls[i] = Call("set_speed", <<-1>>)

\* C6: every dispatch of Start, Stop or IncreaseSpeed made exactly one
\* controller call: start(), stop(), setSpeed(2), whatever the channel, the
\* display and the earlier intents were.
StartStopIncreaseCalls ==
  /\ Len(calls) = Len(dispatched)
  /\ \A i \in 1..Len(dispatched) :
       /\ dispatched[i] = "start" => calls[i] = Call("start", <<>>)
       /\ dispatched[i] = "stop" => calls[i] = Call("stop", <<>>)
       /\ dispatched[i] = "inc_speed" => calls[i] = Call("set_speed", <<2>>)

\* IncreaseSpeed was dispatched after an earlier Stop, with telemetry in the
\* channel and a render event already applied
IncreaseDispatchedWitness ==
  /\ dispatched = <<"stop", "inc_speed">>
  /\ calls = <<Call("stop", <<>>), Call("set_speed", <<2>>)>>
  /\ queue # <<>>
  /\ applied # <<>>

\* C7: once run() has cancelled the subscribe task and its await is over,
\* run() has completed normally, no error having left it.
TeardownAbsorbsCancellation ==
  (cancelRequested /\ runPc # "await_task") => (runPc = "done" /\ runError = "none")

\* C8: when run() awaits the cancelled subscribe task while that task is
\* suspended in put, the await returns within two steps: the only step the
\* program can take is the end of the subscribe task, which leaves the
\* buffered snapshots as they are and enqueues nothing, and then the only
\* step is the return of the await, after which run() goes on with no
\* error; both steps are always possible.
CancelledPutEnds ==
  /\ [][ (runPc = "await_task" /\ prodPc = "put_wait")
           => (prodPc' = "cancelled" /\ runPc' = "await_task" /\ queue' = queue
               /\ putLog' = putLog /\ consumed' = consumed) ]_vars
  /\ [][ (runPc = "await_task" /\ prodPc = "cancelled")
           => (runPc' = "done" /\ runError' = "none" /\ queue' = queue
               /\ putLog' = putLog) ]_vars
  /\ []((runPc = "await_task" /\ prodPc = "put_wait") => ENABLED SubscribeCancelled)
  /\ []((runPc = "await_task" /\ prodPc = "cancelled") => ENABLED RunAwaitTask)

\* C9: a controller call that fails with a transport error leaves the app
\* running, the consumer loop active and the channel as it was.
TransportErrorNonFatal ==
  [][ failed' > failed
        => (uiState' = "running" /\ workers' = workers /\ queue' = queue
            /\ messages' = messages) ]_vars

\* C10: while a handler is suspended in its controller call, an active
\* consumer can take the buffered snapshots and the render event at the
\* head of the app's message queue can be applied.
RenderProgressDuringDispatch ==
  (uiState = "running" /\ pump = "awaiting")
    => /\ \A w \in ActiveWorkers : queue # <<>> => ENABLED watch_queue(w)
       /\ (messages # <<>> /\ Head(messages).type = "Update")
            => ENABLED on_treadmill_update

\* C11: every snapshot taken from the channel has one TreadmillUpdate
\* published for it, carrying its values, in the order of production; the
\* events applied are the first of those published, in the same order, none
\* skipped or merged; and when the app runs with no event left to apply, the
\* display shows the last snapshot taken.
RenderInProductionOrder ==
  /\ consumed = ProducedUpTo(Len(consumed))
  /\ Len(posted) = Len(consumed)
  /\ \A i \in 1..Len(posted) :
       i <= Len(consumed) =>
         /\ posted[i].distance = PadZero(IntText(consumed[i].distance), 4)
         /\ posted[i].calories = PadZero(IntText(consumed[i].calories), 4)
         /\ posted[i].duration = DurationText(consumed[i].time)
  /\ Len(applied) <= Len(posted)
  /\ applied = SubSeq(posted, 1, Len(applied))
  /\ (uiState = "running" /\ consumed # <<>> /\ Len(applied) = Len(consumed))
       => display.distance = PadZero(IntText(consumed[Len(consumed)].distance), 4)

\* 1 where x holds, 0 where it does not
B(x) == IF x THEN 1 ELSE 0

\* how far run() has come
RunRank ==
  CASE runPc = "start" -> 0
    [] runPc = "ui" -> 1
    [] runPc = "disconnecting" -> 2
    [] runPc = "await_task" -> 3
    [] OTHER -> 4

\* a measure of how far the whole program has come; every term is bounded
\* once the user and the device stop acting
Variant ==
  RunRank + produced + resumed + B(prodPc = "cancelled") + B(cancelRequested)
    + presses + mounts + 2 * Len(dispatched) - B(pump = "awaiting")
    + mounts - Cardinality({i \in 1..Len(messages) : messages[i].type = "Mount"})
    + Cardinality({w \in 1..Len(workers) : workers[w] # "started"})
    + Len(consumed) + Len(applied) + B(uiState = "exited")

\* C12: while a put is suspended, the event loop always has a step to take
\* (of run() or asyncio.run, of the worker, of the pump starting on_mount,
\* the resumption of the put or the end of the cancelled task), also after
\* the UI has exited; and every step of the program moves it forward, so
\* that no run of steps goes on for ever without the device or the user
\* acting. Under fair scheduling the loop therefore takes steps until none
\* is left, which is only when the put is no longer suspended: it completed
\* or was ended by cancellation.
SuspendedPutEnds ==
  /\ [](prodPc = "put_wait" => ENABLED LoopStep)
  /\ [][Variant' > Variant]_vars

\* a put was suspended when the UI exited, and it was ended by cancellation:
\* one snapshot more was produced than was put; run() ended on the failing
\* disconnect, so it was asyncio.run that cancelled the task
PutEndedAfterUiExitWitness ==
  /\ prodPc = "cancelled"
  /\ produced = Len(putLog) + 1
  /\ uiState = "exited"
  /\ runPc = "raised"
  /\ runError = "BleakError"

\* C13: with a userHeightCm of 0 the process ends at startup: the subscribe
\* task is never created, the UI never starts, no snapshot is ever taken.
HeightCheckedAtStartup ==
  userHeight = 0 => (prodPc = "none" /\ uiState = "none" /\ consumed = <<>>)

\* floor(distance * 100000 / (userHeightCm * 415)), in integers
StepsExactFloor(distance, height) == (distance * 100000) \div (height * 415)

\* C14: the steps published for a snapshot are the decimal text of
\* floor(distance * 100000 / (userHeightCm * 415)).
StepsIsExactFloor ==
  \A i \in 1..Len(posted) :
    posted[i].steps = IntText(StepsExactFloor(consumed[i].distance, userHeight))

\* H:MM:SS with the hours not wrapped
HoursMinutesSeconds(t) ==
  IntText(t \div 3600) \o ":" \o PadZero(IntText((t % 3600) \div 60), 2)
    \o ":" \o PadZero(IntText(t % 60), 2)

\* C15: the duration published for a snapshot is H:MM:SS of its elapsed
\* seconds, the hours not wrapped at 24.
DurationHoursUnwrapped ==
  \A i \in 1..Len(posted) : posted[i].duration = HoursMinutesSeconds(consumed[i].time)

\* C16: a consumer loop never ends otherwise than cancelled.
ConsumerLoopOnlyCancelled ==
  \A w \in 1..Len(workers) : workers[w] \in {"started", "waiting", "cancelled"}

\* C17: a controller call is made, a render event published or applied and
\* the display changed only inside the connection scope, while the app
\* runs; run() never comes back into the connection scope once it left it.
OnlyWhileConnected ==
  [][ /\ (calls' # calls \/ posted' # posted \/ applied' # applied \/ display' # display)
           => (runPc = "ui" /\ runPc' = "ui" /\ uiState = "running")
      /\ runPc \notin {"start", "ui"} => runPc' \notin {"start", "ui"}
      /\ runPc = "ui" => runPc' # "start"
    ]_vars

\* run() is over after commands were dispatched and snapshots rendered
SessionOverWitness ==
  /\ runPc = "raised"
  /\ calls # <<>>
  /\ applied # <<>>
  /\ display # ComposedData

\* C18: while the app runs and no consumer loop was started yet, nothing was
\* taken from the channel and the channel holds every snapshot put, the
\* first 5 at most; a 6th is held by the producer suspended in put and no
\* further one is produced. The first snapshots the consumer obtains are
\* those at the head of the channel, in order, and they leave the channel.
ProducerAheadRetained ==
  /\ []((uiState = "running" /\ workers = <<>>)
          => /\ consumed = <<>>
             /\ queue = ProducedUpTo(IF produced <= 5 THEN produced ELSE 5)
             /\ produced <= 6
             /\ produced = 6 => (prodPc = "put_wait" /\ pending = Snapshot(6)))
  /\ [][ (consumed = <<>> /\ consumed' # <<>>)
           => /\ consumed' = SubSeq(queue, 1, Len(consumed'))
              /\ queue' = DropFirst(queue, Len(consumed'))
              /\ consumed' = ProducedUpTo(Len(consumed')) ]_vars

\* the consumer's first run obtained the 5 snapshots retained, the producer
\* still suspended with the 6th
RetainedObtainedWitness ==
  /\ consumed = ProducedUpTo(5)
  /\ queue = <<>>
  /\ produced = 6
  /\ prodPc = "put_wait"
  /\ pending = Snapshot(6)
  /\ resumed = 0

\* C19: when run() has ended after creating the subscribe task, that task
\* has ended cancelled.
SubscribeEndedWithRun ==
  (runPc \in {"done", "raised"} /\ prodPc # "none") => prodPc = "cancelled"

====
